---- MODULE Spec2Model ----
(***************************************************************************)
(* The reconnecting-connection state machine of the everConnected-tracking *)
(* component, src/ts/components/ReconnectingWebSocket.tsx lines 525-924,   *)
(* together with the browser objects it drives: WebSocket instances (one   *)
(* per attempt), setTimeout timers, and the React effects that call into   *)
(* it.  Every action is one callback / one effect commit: the code is      *)
(* single-threaded, so a handler runs to completion before the next.       *)
(***************************************************************************)
EXTENDS Integers, Sequences, FiniteSets, TLC

(* ---- bounds of the model ---------------------------------------------- *)
Budget == 5
MaxK == 6

(* ---- values ----------------------------------------------------------- *)
CONNECTING == "CONNECTING"
OPEN == "OPEN"
CLOSING == "CLOSING"
CLOSED == "CLOSED"

NoUrl == ""
Urls == {"A", "B"}
Null == 0 - 1
NoTimer == 0
NoWs == 0
NoDelay == <<0, 1>>
NoInput == [attempts |-> 0, ever |-> FALSE, interval |-> 0, num |-> 1, den |-> 1, max |-> 0]
NoOutput == [done |-> FALSE, d |-> NoDelay, dNext |-> NoDelay, flat |-> NoDelay, flatNext |-> NoDelay]
NoSend == [state |-> "none", ever |-> FALSE, outcome |-> "none"]

\* the list without the code of a failed handshake
serverUnavailableCodesNo1006 == {1002, 1011}
serverUnavailableCodes == {1006, 1002, 1011}
Codes == {1000, 1006}
\* close code of a connection that fails before it is established
HandshakeFailureCodes == {1006}

(* settings defaults *)
reconnectInterval == 1000
maxReconnectInterval == 30000
reconnectDecayNum == 3
reconnectDecayDen == 2
NeverConnectedFactor == 3
UnavailableLimit == 3

VARIABLES
  phase,                \* "new" | "mounted" | "unmounted" : React lifecycle of the component
  url,                  \* the url prop of the last render
  automaticOpen,        \* settings.automaticOpen
  maxReconnectAttempts, \* settings.maxReconnectAttempts (Null when unset)
  wsRef,                \* wsRef.current: index into trans, NoWs for null
  reconnectAttempts,    \* reconnectAttemptsRef.current
  forcedClose,          \* forcedCloseRef.current
  timedOut,             \* timedOutRef.current
  isReconnectAttempt,   \* isReconnectAttemptRef.current
  everConnected,        \* everConnectedRef.current
  connectionTimeoutRef, \* handle of a handshake timer (the transport it guards), NoTimer for null
  reconnectTimeoutRef,  \* handle of a reconnect timer (the transport whose onclose armed it)
  currentReadyState,    \* currentReadyStateRef.current
  trans,                \* every WebSocket created so far (byRetry: created by openConnection(true))
  hsLive,               \* handshake timers armed and neither fired nor cleared
  rcLive,               \* reconnect timers armed and neither fired nor cleared
  armedDelay,           \* delay the last callback armed a reconnect timer with, <<num, den>> ms
  initTimer,            \* the 50ms initTimeout of the url effect is pending
  emitted,              \* setProps calls made by the last callback, in order
  obsState,             \* readyState last reported to the Observer in the state field
  renders,              \* number of re-render commits so far
  budget,               \* transports and re-renders the run may use in total
  sendPending,          \* the send effect of the current commit has still to run
  sendInfo,             \* what sendMessage saw and did, when it was the last callback
  dIn, dOut             \* backoff computation: inputs and result

mgr == <<wsRef, reconnectAttempts, forcedClose, timedOut, isReconnectAttempt,
         everConnected, connectionTimeoutRef, reconnectTimeoutRef,
         currentReadyState, trans, hsLive, rcLive, armedDelay, initTimer,
         emitted, obsState>>
host == <<phase, url, automaticOpen, maxReconnectAttempts, renders, budget, sendPending,
          sendInfo>>
dvars == <<dIn, dOut>>
vars == <<mgr, host, dvars>>

(* ---- backoff ---------------------------------------------------------- *)
RECURSIVE Pow(_, _)
Pow(b, k) == IF k = 0 THEN 1 ELSE b * Pow(b, k - 1)

\* a <= b for non-negative rationals <<num, den>>
RLeq(a, b) == a[1] * b[2] <= b[1] * a[2]

\* the backoff without its cap
MinPowUncapped(baseInterval, num, den, attempts, maxInterval) ==
  <<baseInterval * Pow(num, attempts), Pow(den, attempts)>>

\* Math.min(baseInterval * Math.pow(decay, attempts), maxInterval), as an exact rational
MinPow(baseInterval, num, den, attempts, maxInterval) ==
  LET raw == <<baseInterval * Pow(num, attempts), Pow(den, attempts)>>
  IN IF RLeq(raw, <<maxInterval, 1>>) THEN raw ELSE <<maxInterval, 1>>

\* a base that is tripled whether or not the manager has connected before
baseIntervalTripled(ever, interval) == interval * NeverConnectedFactor

\* lines 809-813: base is tripled while the manager has never connected
baseInterval(ever, interval) == IF ever THEN interval ELSE interval * NeverConnectedFactor

\* the delay with the flat base of the first component
delayWithFlatBase(attempts, ever, interval, num, den, maxInterval) ==
  MinPow(interval, num, den, attempts, maxInterval)

delay(attempts, ever, interval, num, den, maxInterval) ==
  MinPow(baseInterval(ever, interval), num, den, attempts, maxInterval)

\* lines 313-316 (first component) and ReconnectWebSocket.tsx 273-276: flat base
delayFlat(attempts, interval, num, den, maxInterval) ==
  MinPow(interval, num, den, attempts, maxInterval)

(* ---- the manager state as one record, so handlers compose -------------- *)
Cur == [wsRef |-> wsRef, reconnectAttempts |-> reconnectAttempts,
        forcedClose |-> forcedClose, timedOut |-> timedOut,
        isReconnectAttempt |-> isReconnectAttempt, everConnected |-> everConnected,
        connectionTimeoutRef |-> connectionTimeoutRef,
        reconnectTimeoutRef |-> reconnectTimeoutRef,
        currentReadyState |-> currentReadyState, trans |-> trans,
        hsLive |-> hsLive, rcLive |-> rcLive, armedDelay |-> NoDelay,
        initTimer |-> initTimer, emitted |-> <<>>, obsState |-> obsState]

Commit(s) ==
  /\ wsRef' = s.wsRef
  /\ reconnectAttempts' = s.reconnectAttempts
  /\ forcedClose' = s.forcedClose
  /\ timedOut' = s.timedOut
  /\ isReconnectAttempt' = s.isReconnectAttempt
  /\ everConnected' = s.everConnected
  /\ connectionTimeoutRef' = s.connectionTimeoutRef
  /\ reconnectTimeoutRef' = s.reconnectTimeoutRef
  /\ currentReadyState' = s.currentReadyState
  /\ trans' = s.trans
  /\ hsLive' = s.hsLive
  /\ rcLive' = s.rcLive
  /\ armedDelay' = s.armedDelay
  /\ initTimer' = s.initTimer
  /\ emitted' = s.emitted
  /\ obsState' = s.obsState

(* ---- Observer surface -------------------------------------------------- *)
\* one setProps call; readyState is "none" when the call carries no state field
Ev(type, rs, isReconnect, stopped, code) ==
  [type |-> type, readyState |-> rs, isReconnect |-> isReconnect,
   reconnectionStopped |-> stopped, code |-> code]

safeSetProps(s, ev) ==
  [s EXCEPT !.emitted = Append(@, ev),
            !.obsState = IF ev.readyState = "none" THEN @ ELSE ev.readyState]

(* ---- browser primitives ------------------------------------------------ *)
\* a WebSocket after its close event: nothing reads the object any more, so its
\* record is reduced to this; the url stays only while a reconnect timer
\* armed by its onclose holds it in its closure
Dead == [url |-> NoUrl, rs |-> CLOSED, opened |-> FALSE, closedBy |-> "none",
         byRetry |-> FALSE]

\* WebSocket.close(): starts the closing handshake; the close event comes later
\* (by records which call it was: "disconnect" or "timeout")
wsClose(s, w, by) ==
  IF s.trans[w].rs \in {CONNECTING, OPEN}
  THEN [s EXCEPT !.trans[w].rs = CLOSING, !.trans[w].closedBy = by]
  ELSE s

clearConnectionTimeout(s) ==
  IF s.connectionTimeoutRef # NoTimer
  THEN [s EXCEPT !.hsLive = @ \ {s.connectionTimeoutRef}, !.connectionTimeoutRef = NoTimer]
  ELSE s

clearReconnectTimeout(s) ==
  IF s.reconnectTimeoutRef # NoTimer
  THEN [s EXCEPT !.rcLive = @ \ {s.reconnectTimeoutRef},
                 !.trans[s.reconnectTimeoutRef] =
                    IF s.reconnectTimeoutRef \in s.rcLive THEN Dead ELSE @,
                 !.reconnectTimeoutRef = NoTimer]
  ELSE s

(* ---- handlers ----------------------------------------------------------- *)
\* the budget check taken one attempt early
shouldAttemptReconnectionEarly(s, code) ==
  IF s.forcedClose THEN FALSE
  ELSE IF maxReconnectAttempts # Null /\ maxReconnectAttempts # 0
          /\ s.reconnectAttempts + 1 >= maxReconnectAttempts THEN FALSE
  ELSE IF ~s.everConnected /\ code \in serverUnavailableCodes
          /\ s.reconnectAttempts >= UnavailableLimit THEN FALSE
  ELSE TRUE

\* lines 602-639
shouldAttemptReconnection(s, code) ==
  IF s.forcedClose THEN FALSE
  ELSE IF maxReconnectAttempts # Null /\ maxReconnectAttempts # 0
          /\ s.reconnectAttempts >= maxReconnectAttempts THEN FALSE
  ELSE IF ~s.everConnected /\ code \in serverUnavailableCodes
          /\ s.reconnectAttempts >= UnavailableLimit THEN FALSE
  ELSE TRUE

\* an openConnection that reports no connecting event for a fresh attempt
openConnectionSilent(s, u, reconnectAttempt) ==
  IF u = NoUrl THEN s
  ELSE
    LET s1 == [s EXCEPT !.isReconnectAttempt = reconnectAttempt,
                        !.currentReadyState = CONNECTING]
        s2 == IF ~reconnectAttempt THEN [s1 EXCEPT !.reconnectAttempts = 0] ELSE s1
        w == Len(s.trans) + 1
    IN [s2 EXCEPT !.trans = Append(@, [url |-> u, rs |-> CONNECTING, opened |-> FALSE,
                                        closedBy |-> "none",
                                        byRetry |-> reconnectAttempt]),
                  !.wsRef = w,
                  !.hsLive = @ \cup {w},
                  !.connectionTimeoutRef = w]

\* lines 644-681: the part of openConnection that runs synchronously
openConnection(s, u, reconnectAttempt) ==
  IF u = NoUrl THEN s
  ELSE
    LET s1 == [s EXCEPT !.isReconnectAttempt = reconnectAttempt,
                        !.currentReadyState = CONNECTING]
        s2 == IF ~reconnectAttempt
              THEN [safeSetProps(s1, Ev("connecting", CONNECTING, FALSE, FALSE, 0))
                      EXCEPT !.reconnectAttempts = 0]
              ELSE s1
        w == Len(s.trans) + 1
    IN [s2 EXCEPT !.trans = Append(@, [url |-> u, rs |-> CONNECTING, opened |-> FALSE,
                                        closedBy |-> "none",
                                        byRetry |-> reconnectAttempt]),
                  !.wsRef = w,
                  !.hsLive = @ \cup {w},
                  !.connectionTimeoutRef = w]

\* lines 672-679
connectionTimeout(s, w) ==
  LET s1 == [s EXCEPT !.hsLive = @ \ {w}, !.timedOut = TRUE]
      s2 == wsClose(s1, w, "timeout")
  IN [s2 EXCEPT !.timedOut = FALSE]

\* an open callback that forgets to reset the attempt counter
onopenKeepsAttempts(s, w) ==
  LET s1 == clearConnectionTimeout([s EXCEPT !.trans[w].rs = OPEN, !.trans[w].opened = TRUE])
      s2 == [s1 EXCEPT !.everConnected = TRUE,
                       !.currentReadyState = OPEN]
      s3 == safeSetProps(s2, Ev("open", OPEN, s2.isReconnectAttempt, FALSE, 0))
  IN [s3 EXCEPT !.isReconnectAttempt = FALSE]

\* lines 685-717
onopen(s, w) ==
  LET s1 == clearConnectionTimeout([s EXCEPT !.trans[w].rs = OPEN, !.trans[w].opened = TRUE])
      s2 == [s1 EXCEPT !.everConnected = TRUE,
                       !.currentReadyState = OPEN,
                       !.reconnectAttempts = 0]
      s3 == safeSetProps(s2, Ev("open", OPEN, s2.isReconnectAttempt, FALSE, 0))
  IN [s3 EXCEPT !.isReconnectAttempt = FALSE]

\* lines 719-727
onmessage(s, w) == safeSetProps(s, Ev("message", "none", FALSE, FALSE, 0))

\* an error callback that also treats the error as the end of the connection
onerrorDropsConnection(s, w) ==
  safeSetProps([s EXCEPT !.currentReadyState = CLOSED, !.wsRef = NoWs],
               Ev("error", "none", FALSE, FALSE, 0))

\* lines 729-737
onerror(s, w) == safeSetProps(s, Ev("error", "none", FALSE, FALSE, 0))

\* lines 740-824
onclose(s, w, code) ==
  LET s1 == clearConnectionTimeout([s EXCEPT !.trans[w] = Dead])
      s2 == [s1 EXCEPT !.wsRef = NoWs]
  IN IF s2.forcedClose
     THEN safeSetProps([s2 EXCEPT !.currentReadyState = CLOSED],
                       Ev("close", CLOSED, FALSE, FALSE, code))
     ELSE IF ~shouldAttemptReconnection(s2, code)
     THEN safeSetProps([s2 EXCEPT !.currentReadyState = CLOSED],
                       Ev("close", CLOSED, FALSE, TRUE, code))
     ELSE
       LET s3 == safeSetProps([s2 EXCEPT !.currentReadyState = CONNECTING],
                              Ev("connecting", CONNECTING, FALSE, FALSE, code))
           s4 == IF ~s3.isReconnectAttempt /\ ~s3.timedOut
                 THEN safeSetProps(s3, Ev("close", CONNECTING, FALSE, FALSE, code))
                 ELSE s3
           d == delay(s4.reconnectAttempts, s4.everConnected, reconnectInterval,
                      reconnectDecayNum, reconnectDecayDen, maxReconnectInterval)
       IN [s4 EXCEPT !.trans[w].url = s.trans[w].url,
                     !.reconnectTimeoutRef = w,
                     !.rcLive = @ \cup {w},
                     !.armedDelay = d]

\* a reconnect timer callback that counts the attempt but opens nothing
reconnectTimeoutCountsOnly(s, w) ==
  [s EXCEPT !.rcLive = @ \ {w}, !.trans[w] = Dead, !.reconnectAttempts = @ + 1]

\* lines 820-823: the reconnect timer armed by the onclose of transport w
reconnectTimeout(s, w) ==
  LET s1 == [s EXCEPT !.rcLive = @ \ {w}, !.trans[w] = Dead,
                      !.reconnectAttempts = @ + 1]
  IN openConnection(s1, s.trans[w].url, TRUE)

\* lines 830-847
disconnect(s) ==
  LET s1 == [s EXCEPT !.forcedClose = TRUE]
      s2 == clearReconnectTimeout(clearConnectionTimeout(s1))
  IN IF s2.wsRef # NoWs THEN wsClose(s2, s2.wsRef, "disconnect") ELSE s2

\* lines 893-901: cleanup of the url effect
urlEffectCleanup(s) == disconnect([s EXCEPT !.initTimer = FALSE])

\* lines 884-891: body of the url effect for a render with url u
urlEffect(s, u) ==
  [s EXCEPT !.forcedClose = FALSE,
            !.initTimer = (u # NoUrl /\ automaticOpen)]

\* lines 852-881; the result carries what happened to the payload
sendOutcome(s) ==
  IF s.currentReadyState = OPEN /\ s.wsRef # NoWs
  THEN CASE s.trans[s.wsRef].rs = OPEN -> "transmitted"
         [] s.trans[s.wsRef].rs = CONNECTING -> "threw"
         [] OTHER -> "discarded"
  ELSE "rejected"

\* the reopen branch without the everConnected condition (as in lines 380-387)
sendMessageAlwaysReopens(s, u) ==
  IF sendOutcome(s) \in {"transmitted", "discarded"} THEN s
  ELSE IF s.currentReadyState = CLOSED
  THEN openConnection([s EXCEPT !.forcedClose = FALSE], u, FALSE)
  ELSE s

sendMessage(s, u) ==
  IF sendOutcome(s) \in {"transmitted", "discarded"} THEN s
  ELSE IF s.currentReadyState = CLOSED /\ s.everConnected
  THEN openConnection([s EXCEPT !.forcedClose = FALSE], u, FALSE)
  ELSE s

(* ---- actions ------------------------------------------------------------ *)
Live(w) == w \in 1..Len(trans) /\ trans[w].rs # CLOSED

\* a run uses at most budget transports and re-renders in total
Bounded(s) == Len(s.trans) + renders <= budget

Host(p, u, pend, si) ==
  /\ phase' = p
  /\ url' = u
  /\ sendPending' = pend
  /\ sendInfo' = si
  /\ UNCHANGED <<automaticOpen, maxReconnectAttempts, budget, dvars>>

SameRenders == renders' = renders

\* first commit: the url effect runs for the first time; the send effect
\* follows in the same flush when the send prop is set
Mount(withSend) ==
  /\ phase = "new"
  /\ Commit(urlEffect(Cur, url))
  /\ Host("mounted", url, withSend, NoSend)
  /\ SameRenders

\* a later commit with url prop u: every render re-runs the url effect, its
\* cleanup first, because settings (line 556) and so openConnection (line 825)
\* are new objects in every render; withSend: the send prop changed as well
Rerender(u, withSend) ==
  /\ phase = "mounted"
  /\ ~sendPending
  /\ Len(trans) + renders < budget
  /\ renders' = renders + 1
  /\ Commit(urlEffect(urlEffectCleanup(Cur), u))
  /\ Host("mounted", u, withSend, NoSend)

\* the send effect of a commit whose send prop changed (lines 905-914)
SendEffect ==
  /\ sendPending
  /\ LET s == sendMessage(Cur, url)
     IN /\ Bounded(s)
        /\ Commit(s)
        /\ Host(phase, url, FALSE, [state |-> currentReadyState, ever |-> everConnected,
                                    outcome |-> sendOutcome(Cur)])
  /\ SameRenders

\* unmount: cleanup of the url effect, then of the unmount effect (lines 917-921)
Unmount ==
  /\ phase = "mounted"
  /\ ~sendPending
  /\ Commit(disconnect(urlEffectCleanup(Cur)))
  /\ Host("unmounted", url, FALSE, NoSend)
  /\ SameRenders

\* the 50ms timer of the url effect (lines 889-891)
InitTimeout ==
  /\ initTimer
  /\ ~sendPending
  /\ LET s == openConnection([Cur EXCEPT !.initTimer = FALSE], url, FALSE)
     IN Bounded(s) /\ Commit(s)
  /\ Host(phase, url, FALSE, NoSend)
  /\ SameRenders

ConnectionTimeout(w) ==
  /\ w \in hsLive
  /\ ~sendPending
  /\ Commit(connectionTimeout(Cur, w))
  /\ Host(phase, url, FALSE, NoSend)
  /\ SameRenders

ReconnectTimeout(w) ==
  /\ w \in rcLive
  /\ ~sendPending
  /\ LET s == reconnectTimeout(Cur, w)
     IN Bounded(s) /\ Commit(s)
  /\ Host(phase, url, FALSE, NoSend)
  /\ SameRenders

\* the handshake of transport w completes
WsOpen(w) ==
  /\ w \in 1..Len(trans)
  /\ trans[w].rs = CONNECTING
  /\ ~sendPending
  /\ Commit(onopen(Cur, w))
  /\ Host(phase, url, FALSE, NoSend)
  /\ SameRenders

WsMessage(w) ==
  /\ w \in 1..Len(trans)
  /\ trans[w].rs = OPEN
  /\ ~sendPending
  /\ Commit(onmessage(Cur, w))
  /\ Host(phase, url, FALSE, NoSend)
  /\ SameRenders

WsError(w) ==
  /\ Live(w)
  /\ ~sendPending
  /\ Commit(onerror(Cur, w))
  /\ Host(phase, url, FALSE, NoSend)
  /\ SameRenders

\* the close event: code 1006 unless the connection had been established
WsClose(w, code) ==
  /\ Live(w)
  /\ ~sendPending
  /\ code \in (IF trans[w].opened THEN Codes ELSE HandshakeFailureCodes)
  /\ Commit(onclose(Cur, w, code))
  /\ Host(phase, url, FALSE, NoSend)
  /\ SameRenders

InitMgr ==
  /\ wsRef = NoWs
  /\ reconnectAttempts = 0
  /\ forcedClose = FALSE
  /\ timedOut = FALSE
  /\ isReconnectAttempt = FALSE
  /\ everConnected = FALSE
  /\ connectionTimeoutRef = NoTimer
  /\ reconnectTimeoutRef = NoTimer
  /\ currentReadyState = CLOSED
  /\ trans = <<>>
  /\ hsLive = {}
  /\ rcLive = {}
  /\ armedDelay = NoDelay
  /\ initTimer = FALSE
  /\ emitted = <<>>
  /\ obsState = CLOSED
  /\ renders = 0
  /\ sendPending = FALSE
  /\ sendInfo = NoSend

Init ==
  /\ InitMgr
  /\ budget = Budget
  /\ phase = "new"
  /\ url = "A"
  /\ automaticOpen \in BOOLEAN
  /\ maxReconnectAttempts \in {Null, 0, 1, 3}
  /\ dIn = NoInput
  /\ dOut = NoOutput

Next ==
  \/ \E b \in BOOLEAN : Mount(b)
  \/ \E u \in Urls \cup {NoUrl}, b \in BOOLEAN : Rerender(u, b)
  \/ SendEffect
  \/ Unmount
  \/ InitTimeout
  \/ \E w \in 1..(Budget + 1) : ConnectionTimeout(w)
  \/ \E w \in 1..(Budget + 1) : ReconnectTimeout(w)
  \/ \E w \in 1..(Budget + 1) : WsOpen(w)
  \/ \E w \in 1..(Budget + 1) : WsMessage(w)
  \/ \E w \in 1..(Budget + 1) : WsError(w)
  \/ \E w \in 1..Budget, code \in Codes : WsClose(w, code)

Spec == Init /\ [][Next]_vars

\* a host that re-renders without ever changing the url, with
\* maxReconnectAttempts = 1, explored one step deeper
InitSameUrl ==
  /\ InitMgr
  /\ budget = Budget + 1
  /\ phase = "new"
  /\ url = "A"
  /\ automaticOpen = TRUE
  /\ maxReconnectAttempts = 1
  /\ dIn = NoInput
  /\ dOut = NoOutput

NextSameUrl ==
  \/ \E b \in BOOLEAN : Mount(b)
  \/ \E b \in BOOLEAN : Rerender(url, b)
  \/ SendEffect
  \/ Unmount
  \/ InitTimeout
  \/ \E w \in 1..(Budget + 1) : ConnectionTimeout(w)
  \/ \E w \in 1..(Budget + 1) : ReconnectTimeout(w)
  \/ \E w \in 1..(Budget + 1) : WsOpen(w)
  \/ \E w \in 1..(Budget + 1) : WsMessage(w)
  \/ \E w \in 1..(Budget + 1) : WsError(w)
  \/ \E w \in 1..(Budget + 1), code \in Codes : WsClose(w, code)

SpecSameUrl == InitSameUrl /\ [][NextSameUrl]_vars

\* a host that mounts the component and then leaves it alone, and an endpoint
\* that accepts at the latest the last transport the run may create: the
\* handshake of that transport neither times out nor fails
InitLive ==
  /\ InitMgr
  /\ budget = Budget
  /\ phase = "new"
  /\ url = "A"
  /\ automaticOpen = TRUE
  /\ maxReconnectAttempts \in {Null, 0, 1, 3}
  /\ dIn = NoInput
  /\ dOut = NoOutput

HandshakeTimesOut(w) == w < budget /\ ConnectionTimeout(w)

\* the close event of a transport that is closing or open, or whose handshake fails
Terminates(w, code) ==
  /\ w \in 1..Len(trans)
  /\ (w < budget \/ trans[w].rs # CONNECTING)
  /\ WsClose(w, code)

\* the close event that follows WebSocket.close()
ClosingEnds(w) ==
  /\ w \in 1..Len(trans)
  /\ trans[w].rs = CLOSING
  /\ WsClose(w, IF trans[w].opened THEN 1000 ELSE 1006)

Accepts(w) == w = budget /\ WsOpen(w)

NextLive ==
  \/ \E b \in BOOLEAN : Mount(b)
  \/ SendEffect
  \/ InitTimeout
  \/ \E w \in 1..(Budget + 1) : HandshakeTimesOut(w)
  \/ \E w \in 1..(Budget + 1) : ReconnectTimeout(w)
  \/ \E w \in 1..(Budget + 1) : WsOpen(w)
  \/ \E w \in 1..(Budget + 1) : WsMessage(w)
  \/ \E w \in 1..(Budget + 1) : WsError(w)
  \/ \E w \in 1..(Budget + 1), code \in Codes : Terminates(w, code)

\* timers fire, the send effect of a commit runs, the close event of a closed
\* transport arrives, and the accepting endpoint completes the handshake
FairLive ==
  /\ WF_vars(\E b \in BOOLEAN : Mount(b))
  /\ WF_vars(SendEffect)
  /\ WF_vars(InitTimeout)
  /\ \A w \in 1..(Budget + 1) :
       /\ WF_vars(HandshakeTimesOut(w))
       /\ WF_vars(ReconnectTimeout(w))
       /\ WF_vars(ClosingEnds(w))
       /\ WF_vars(Accepts(w))

SpecLive == InitLive /\ [][NextLive]_vars /\ FairLive

TypeOK ==
  /\ wsRef \in 0..Len(trans)
  /\ currentReadyState \in {CONNECTING, OPEN, CLOSED}
  /\ hsLive \subseteq 1..Len(trans)
  /\ rcLive \subseteq 1..Len(trans)
  /\ Len(trans) + renders <= budget
  /\ timedOut = FALSE

(* ---- the first component of the file (lines 84-439) ---------------------- *)
\* Its refs are those of the second component without everConnectedRef, so
\* its handlers work on the same record.

\* lines 162-208
openConnectionFirst(s, u, reconnectAttempt) ==
  IF u = NoUrl THEN s
  ELSE IF reconnectAttempt /\ maxReconnectAttempts # Null /\ maxReconnectAttempts # 0
          /\ s.reconnectAttempts > maxReconnectAttempts
  THEN s
  ELSE
    LET s1 == IF ~reconnectAttempt
              THEN [safeSetProps(s, Ev("connecting", CONNECTING, FALSE, FALSE, 0))
                      EXCEPT !.reconnectAttempts = 0]
              ELSE s
        s2 == [s1 EXCEPT !.isReconnectAttempt = reconnectAttempt,
                         !.currentReadyState = CONNECTING]
        w == Len(s.trans) + 1
    IN [s2 EXCEPT !.trans = Append(@, [url |-> u, rs |-> CONNECTING, opened |-> FALSE,
                                        closedBy |-> "none",
                                        byRetry |-> reconnectAttempt]),
                  !.wsRef = w,
                  !.hsLive = @ \cup {w},
                  !.connectionTimeoutRef = w]

\* lines 212-239
onopenFirst(s, w) ==
  LET s1 == clearConnectionTimeout([s EXCEPT !.trans[w].rs = OPEN, !.trans[w].opened = TRUE])
      s2 == [s1 EXCEPT !.currentReadyState = OPEN, !.reconnectAttempts = 0]
      s3 == safeSetProps(s2, Ev("open", OPEN, s2.isReconnectAttempt, FALSE, 0))
  IN [s3 EXCEPT !.isReconnectAttempt = FALSE]

\* lines 262-328
oncloseFirst(s, w, code) ==
  LET s1 == clearConnectionTimeout([s EXCEPT !.trans[w] = Dead])
      s2 == [s1 EXCEPT !.wsRef = NoWs]
  IN IF s2.forcedClose
     THEN safeSetProps([s2 EXCEPT !.currentReadyState = CLOSED],
                       Ev("close", CLOSED, FALSE, FALSE, code))
     ELSE
       LET s3 == safeSetProps([s2 EXCEPT !.currentReadyState = CONNECTING],
                              Ev("connecting", CONNECTING, FALSE, FALSE, code))
           s4 == IF ~s3.isReconnectAttempt /\ ~s3.timedOut
                 THEN safeSetProps(s3, Ev("close", CONNECTING, FALSE, FALSE, code))
                 ELSE s3
           d == delayFlat(s4.reconnectAttempts, reconnectInterval,
                          reconnectDecayNum, reconnectDecayDen, maxReconnectInterval)
       IN [s4 EXCEPT !.trans[w].url = s.trans[w].url,
                     !.reconnectTimeoutRef = w,
                     !.rcLive = @ \cup {w},
                     !.armedDelay = d]

\* lines 324-327
reconnectTimeoutFirst(s, w) ==
  LET s1 == [s EXCEPT !.rcLive = @ \ {w}, !.trans[w] = Dead,
                      !.reconnectAttempts = @ + 1]
  IN openConnectionFirst(s1, s.trans[w].url, TRUE)

\* lines 402-404
InitTimeoutFirst ==
  /\ initTimer
  /\ LET s == openConnectionFirst([Cur EXCEPT !.initTimer = FALSE], url, FALSE)
     IN Bounded(s) /\ Commit(s)
  /\ Host(phase, url, FALSE, NoSend)
  /\ SameRenders

ReconnectTimeoutFirst(w) ==
  /\ w \in rcLive
  /\ LET s == reconnectTimeoutFirst(Cur, w)
     IN Bounded(s) /\ Commit(s)
  /\ Host(phase, url, FALSE, NoSend)
  /\ SameRenders

WsOpenFirst(w) ==
  /\ w \in 1..Len(trans)
  /\ trans[w].rs = CONNECTING
  /\ Commit(onopenFirst(Cur, w))
  /\ Host(phase, url, FALSE, NoSend)
  /\ SameRenders

WsCloseFirst(w, code) ==
  /\ Live(w)
  /\ code \in (IF trans[w].opened THEN Codes ELSE HandshakeFailureCodes)
  /\ Commit(oncloseFirst(Cur, w, code))
  /\ Host(phase, url, FALSE, NoSend)
  /\ SameRenders

\* a host that mounts the first component, never re-renders it and sends nothing
InitFirst ==
  /\ InitMgr
  /\ budget = Budget
  /\ phase = "new"
  /\ url = "A"
  /\ automaticOpen = TRUE
  /\ maxReconnectAttempts \in {Null, 0, 1, 3}
  /\ dIn = NoInput
  /\ dOut = NoOutput

NextFirst ==
  \/ Mount(FALSE)
  \/ Unmount
  \/ InitTimeoutFirst
  \/ \E w \in 1..(Budget + 1) : ConnectionTimeout(w)
  \/ \E w \in 1..(Budget + 1) : ReconnectTimeoutFirst(w)
  \/ \E w \in 1..(Budget + 1) : WsOpenFirst(w)
  \/ \E w \in 1..(Budget + 1), code \in Codes : WsCloseFirst(w, code)

SpecFirst == InitFirst /\ [][NextFirst]_vars

(* ---- the backoff computation on its own --------------------------------- *)
Decays == {<<3, 2>>, <<2, 1>>}
Intervals == {1, 1000}
MaxIntervals == {2000, 30000}

\* lines 807-813 applied to arbitrary policy values and attempt counts
ComputeDelay ==
  /\ ~dOut.done
  /\ dOut' = [done |-> TRUE,
              d |-> delay(dIn.attempts, dIn.ever, dIn.interval, dIn.num, dIn.den, dIn.max),
              dNext |-> delay(dIn.attempts + 1, dIn.ever, dIn.interval, dIn.num, dIn.den, dIn.max),
              flat |-> delayFlat(dIn.attempts, dIn.interval, dIn.num, dIn.den, dIn.max),
              flatNext |-> delayFlat(dIn.attempts + 1, dIn.interval, dIn.num, dIn.den, dIn.max)]
  /\ UNCHANGED <<mgr, host, dIn>>

InitDelay ==
  /\ InitMgr
  /\ budget = Budget
  /\ phase = "new"
  /\ url = "A"
  /\ automaticOpen = TRUE
  /\ maxReconnectAttempts = Null
  /\ dIn \in {[attempts |-> k, ever |-> e, interval |-> i, num |-> dc[1], den |-> dc[2], max |-> m] :
                k \in 0..MaxK, e \in BOOLEAN, i \in Intervals, dc \in Decays, m \in MaxIntervals}
  /\ dOut = NoOutput

NextDelay == ComputeDelay

SpecDelay == InitDelay /\ [][NextDelay]_vars

(* ---- which callback a step was ------------------------------------------ *)
Ids == 1..Len(trans)
ClosedNow(w) == trans[w].rs # CLOSED /\ trans'[w].rs = CLOSED
OpenedNow(w) == trans[w].rs = CONNECTING /\ trans'[w].rs = OPEN
HandshakeTimerFired(w) ==
  w \in hsLive /\ w \notin hsLive' /\ connectionTimeoutRef' = connectionTimeoutRef
ReconnectTimerFired(w) ==
  w \in rcLive /\ w \notin rcLive' /\ Len(trans') = Len(trans) + 1
Torn == phase = "mounted" /\ phase' = "unmounted"
Committed == renders' = renders + 1

TerminalCloses(es) ==
  {i \in 1..Len(es) : es[i].type = "close" /\ es[i].readyState = CLOSED}
StoppedCloses(es) ==
  {i \in TerminalCloses(es) : es[i].reconnectionStopped}
Connectings(es) == {i \in 1..Len(es) : es[i].type = "connecting"}
LiveSet == {w \in Ids : trans[w].rs \in {CONNECTING, OPEN}}

(* ---- claims ---------------------------------------------------------------- *)

\* C1: disconnect with a live transport cancels that transport's handshake
\* timer and closes the transport, and the close callback of a transport that
\* disconnect closed moves the state to Closed, reports exactly one terminal
\* close event and arms no reconnect timer.
C1_DisconnectIsTerminal ==
  [][/\ ((Torn \/ Committed) /\ wsRef # NoWs /\ trans[wsRef].rs \in {CONNECTING, OPEN})
        => (trans'[wsRef].rs = CLOSING /\ wsRef \notin hsLive')
     /\ \A w \in Ids :
          (trans[w].closedBy = "disconnect" /\ ClosedNow(w))
          => /\ currentReadyState' = CLOSED
             /\ Cardinality(TerminalCloses(emitted')) = 1
             /\ rcLive' \subseteq rcLive]_vars

\* C2: a callback (open, close, handshake timeout) of a transport that is no
\* longer the newest one changes no manager state and arms no reconnect timer.
C2_StaleCallbacksInert ==
  [][\A w \in Ids :
       (w < Len(trans) /\ (ClosedNow(w) \/ OpenedNow(w) \/ HandshakeTimerFired(w)))
       => UNCHANGED <<currentReadyState, wsRef, reconnectAttempts, forcedClose,
                      timedOut, isReconnectAttempt, everConnected,
                      connectionTimeoutRef, reconnectTimeoutRef, rcLive>>]_vars

\* C3: teardown cancels both timers, and after teardown no handshake-timer or
\* reconnect-timer callback runs and no transport is created.
C3_NothingRunsAfterTeardown ==
  [][/\ Torn => (hsLive' = {} /\ rcLive' = {} /\ ~initTimer')
     /\ phase = "unmounted"
        => /\ Len(trans') = Len(trans)
           /\ \A w \in Ids : ~HandshakeTimerFired(w) /\ ~ReconnectTimerFired(w)]_vars

\* C4: every open callback leaves attemptCount = 0 and everConnected = TRUE,
\* and no step ever turns everConnected from TRUE to FALSE.
C4_OpenResetsAndEverConnectedMonotonic ==
  [][/\ everConnected => everConnected'
     /\ \A w \in Ids : OpenedNow(w) => (reconnectAttempts' = 0 /\ everConnected')]_vars

\* an open callback has run after a retry, and the manager was closed afterwards
C4_Witness ==
  /\ everConnected
  /\ reconnectAttempts = 0
  /\ phase = "unmounted"
  /\ currentReadyState = CLOSED
  /\ Len(trans) >= 2

\* C5: for every set maxReconnectAttempts N >= 0, a non-forced close callback
\* that runs with attemptCount >= N moves the state to Closed, reports a close
\* event marked reconnectionStopped and arms no reconnect timer.
C5_ExhaustedBudgetStops ==
  [][\A w \in Ids :
       (ClosedNow(w) /\ ~forcedClose /\ maxReconnectAttempts # Null
          /\ reconnectAttempts >= maxReconnectAttempts)
       => /\ currentReadyState' = CLOSED
          /\ StoppedCloses(emitted') # {}
          /\ rcLive' \subseteq rcLive]_vars

\* the setting of Scenario C: a fresh manager with maxReconnectAttempts = 3,
\* never re-rendered, none of whose transports has completed a handshake
ScenarioC ==
  /\ maxReconnectAttempts = 3
  /\ automaticOpen
  /\ phase = "mounted"
  /\ renders = 0
  /\ ~everConnected

\* C6 as stated: in Scenario C the close event marked reconnectionStopped comes
\* when exactly 3 transports have been created, and no timer is armed then.
C6_ExhaustedAfterThreeTransports ==
  (ScenarioC /\ StoppedCloses(emitted) # {})
  => (Len(trans) = 3 /\ hsLive = {} /\ rcLive = {} /\ ~initTimer)

\* C6 amended: in Scenario C the close event marked reconnectionStopped comes
\* when exactly 4 transports have been created (the initial attempt and 3
\* reconnection attempts), and from then on the state is Closed, no timer is
\* armed and no further transport is created.
C6_ExhaustedAfterFourTransports ==
  (ScenarioC /\ (StoppedCloses(emitted) # {} \/ (currentReadyState = CLOSED /\ Len(trans) > 0)))
  => (Len(trans) = 4 /\ currentReadyState = CLOSED
      /\ hsLive = {} /\ rcLive = {} /\ ~initTimer)

C6_Witness ==
  ScenarioC /\ StoppedCloses(emitted) # {} /\ Len(trans) = 4 /\ reconnectAttempts = 3

\* C7: the computed delay never exceeds maxReconnectInterval and the delay for
\* attemptCount + 1 is at least the delay for attemptCount (both the
\* everConnected-dependent delay and the flat one of the first component).
C7_DelayCappedAndMonotone ==
  dOut.done =>
    /\ RLeq(dOut.d, <<dIn.max, 1>>)
    /\ RLeq(dOut.d, dOut.dNext)
    /\ RLeq(dOut.flat, <<dIn.max, 1>>)
    /\ RLeq(dOut.flat, dOut.flatNext)

\* a delay still below the cap whose successor is capped
C7_Witness ==
  /\ dOut.done
  /\ dIn.attempts > 0
  /\ dOut.d # <<dIn.max, 1>>
  /\ dOut.d # dOut.dNext
  /\ dOut.dNext = <<dIn.max, 1>>

Handed(si) == si.outcome \in {"transmitted", "discarded"}

\* C8: sendMessage hands the payload to the transport iff the manager state is
\* Open at the call; in Connecting it creates no transport.
C8_SendIffOpen ==
  [][sendPending =>
       /\ Handed(sendInfo') <=> currentReadyState = OPEN
       /\ currentReadyState = CONNECTING => Len(trans') = Len(trans)]_vars

\* C9: with an endpoint set, sendMessage called in state Closed with
\* everConnected = TRUE clears forcedClose, resets attemptCount to 0, reports one
\* connecting event and creates exactly one transport; and a send never creates
\* a transport while another attempt is live, so sends leave at most one live
\* attempt.
C9_SendReopensOnce ==
  [][/\ (sendPending /\ url # NoUrl /\ currentReadyState = CLOSED /\ everConnected)
        => /\ forcedClose' = FALSE
           /\ reconnectAttempts' = 0
           /\ Cardinality(Connectings(emitted')) = 1
           /\ Len(trans') = Len(trans) + 1
     /\ (sendPending /\ Len(trans') > Len(trans)) => LiveSet = {}]_vars

C11_RejectedSendReported ==
  [][(sendPending /\ currentReadyState # OPEN) => emitted' # <<>>]_vars

\* C12: when a commit changes the url to another endpoint while a transport to the old url is live,
\* that transport is closed, its close callback arms no reconnect timer, the
\* open cycle for the new url is started, and every transport created from
\* then on targets the url of the last render.
C12_EndpointChangeForcesCloseAndReopens ==
  [][/\ (Committed /\ url' # url /\ url' # NoUrl /\ automaticOpen) => initTimer'
     /\ (Committed /\ url' # url /\ url' # NoUrl) => LiveSet \cap {w \in Ids : trans'[w].rs # CLOSING} = {}
     /\ \A w \in Ids :
          (ClosedNow(w) /\ trans[w].closedBy = "disconnect" /\ url # NoUrl
             /\ trans[w].url # url)
          => rcLive' \subseteq rcLive
     /\ Len(trans') > Len(trans) => trans'[Len(trans')].url = url]_vars

\* the setting of Scenario A: a manager mounted with automatic open, never
\* re-rendered, whose only transport so far is the first one
ScenarioA ==
  /\ automaticOpen
  /\ phase = "mounted"
  /\ renders = 0
  /\ Len(trans') = 1
  /\ phase' = "mounted"

\* C13: in Scenario A the mount reports nothing, opening the first transport
\* reports exactly one connecting event, nothing but error events is reported
\* while the handshake is pending, and the open callback of the first transport
\* reports exactly one open event with isReconnect = FALSE and leaves the
\* state Open, reported as Open, with attemptCount 0.
C13_FreshOpenReportsConnectingThenOpen ==
  [][/\ phase = "new" => emitted' = <<>>
     /\ (ScenarioA /\ Len(trans) = 0)
        => /\ emitted' = <<Ev("connecting", CONNECTING, FALSE, FALSE, 0)>>
           /\ currentReadyState' = CONNECTING
     /\ (ScenarioA /\ Len(trans) = 1 /\ trans[1].rs = CONNECTING /\ trans'[1].rs = CONNECTING)
        => \A i \in 1..Len(emitted') : emitted'[i].type = "error"
     /\ (ScenarioA /\ Len(trans) = 1 /\ OpenedNow(1))
        => /\ emitted' = <<Ev("open", OPEN, FALSE, FALSE, 0)>>
           /\ currentReadyState' = OPEN
           /\ obsState' = OPEN
           /\ reconnectAttempts' = 0]_vars

\* the first transport of a never re-rendered manager has just opened
C13_Witness ==
  /\ automaticOpen
  /\ phase = "mounted"
  /\ renders = 0
  /\ Len(trans) = 1
  /\ trans[1].rs = OPEN
  /\ currentReadyState = OPEN
  /\ reconnectAttempts = 0
  /\ emitted = <<Ev("open", OPEN, FALSE, FALSE, 0)>>

\* the setting of Scenario B: the close event of the current transport w, which
\* is open and was not closed by the manager, arrives while the manager is
\* Open with everConnected, attemptCount 0 and no forced close
ScenarioB(w) ==
  /\ ClosedNow(w)
  /\ w = wsRef
  /\ trans[w].rs = OPEN
  /\ currentReadyState = OPEN
  /\ everConnected
  /\ reconnectAttempts = 0
  /\ ~forcedClose
  /\ Len(emitted') > 0
  /\ emitted'[1].code = 1006

\* the reconnect timer armed in Scenario B fires
ScenarioBRetry(w) ==
  /\ ReconnectTimerFired(w)
  /\ everConnected
  /\ reconnectAttempts = 0
  /\ currentReadyState = CONNECTING

\* C14 as stated: in Scenario B the close callback reports close(loss) and then
\* connecting and arms a reconnect timer with delay(0, TRUE); when the timer
\* fires, one connecting event is reported and attemptCount is 1.
C14_LossReportsCloseThenConnecting ==
  [][\A w \in Ids :
       /\ ScenarioB(w)
          => /\ emitted' = <<Ev("close", CONNECTING, FALSE, FALSE, 1006),
                             Ev("connecting", CONNECTING, FALSE, FALSE, 1006)>>
             /\ w \in rcLive'
             /\ armedDelay' = delay(0, TRUE, reconnectInterval, reconnectDecayNum,
                                    reconnectDecayDen, maxReconnectInterval)
       /\ ScenarioBRetry(w)
          => /\ Cardinality(Connectings(emitted')) = 1
             /\ reconnectAttempts' = 1]_vars

\* C14 amended: in Scenario B the close callback reports connecting and then
\* close(loss), leaves the state Connecting and arms a reconnect timer with
\* delay(0, TRUE) = 1000 ms; when the timer fires, one transport is created
\* as a reconnect attempt with attemptCount 1 and no event is reported.
C14_LossReportsConnectingThenClose ==
  [][\A w \in Ids :
       /\ ScenarioB(w)
          => /\ emitted' = <<Ev("connecting", CONNECTING, FALSE, FALSE, 1006),
                             Ev("close", CONNECTING, FALSE, FALSE, 1006)>>
             /\ currentReadyState' = CONNECTING
             /\ w \in rcLive'
             /\ armedDelay' = delay(0, TRUE, reconnectInterval, reconnectDecayNum,
                                    reconnectDecayDen, maxReconnectInterval)
             /\ armedDelay' = <<reconnectInterval, 1>>
       /\ ScenarioBRetry(w)
          => /\ emitted' = <<>>
             /\ reconnectAttempts' = 1
             /\ isReconnectAttempt'
             /\ Len(trans') = Len(trans) + 1
             /\ currentReadyState' = CONNECTING]_vars

\* the open transport of a never re-rendered manager was just closed by the
\* peer with code 1006 and the retry is scheduled
C14_Witness ==
  /\ phase = "mounted"
  /\ renders = 0
  /\ everConnected
  /\ reconnectAttempts = 0
  /\ currentReadyState = CONNECTING
  /\ emitted = <<Ev("connecting", CONNECTING, FALSE, FALSE, 1006),
                 Ev("close", CONNECTING, FALSE, FALSE, 1006)>>
  /\ armedDelay = <<reconnectInterval, 1>>
  /\ rcLive = {1}

\* C15: under fair timers, whenever a close callback has armed a reconnect timer
\* (an unexpected termination with forcedClose FALSE and the retry budget not
\* exhausted) a new transport is eventually created; and when the endpoint
\* accepts the next transport, the manager eventually reaches Open.
C15_RetryEventuallyReconnects ==
  /\ \A n \in 1..Budget :
       (rcLive # {} /\ Len(trans) = n /\ n < budget) ~> (Len(trans) > n)
  /\ (rcLive # {} /\ Len(trans) = budget - 1) ~> (currentReadyState = OPEN)

\* the retry armed after the last failing transport was taken and the
\* accepted transport opened as a reconnection
C15_Witness ==
  /\ Len(trans) = budget
  /\ trans[budget].rs = OPEN
  /\ currentReadyState = OPEN
  /\ emitted = <<Ev("open", OPEN, TRUE, FALSE, 0)>>
  /\ rcLive = {}

\* C16: in every reachable state at most one handshake timer and at most one
\* reconnect timer is live, and every live timer is the one its handle
\* (connectionTimeoutRef, reconnectTimeoutRef) refers to.
C16_AtMostOneTimerOfEachKind ==
  /\ Cardinality(hsLive) <= 1
  /\ Cardinality(rcLive) <= 1
  /\ \A w \in hsLive : connectionTimeoutRef = w
  /\ \A w \in rcLive : reconnectTimeoutRef = w

\* C17: the open callback of a transport and a disconnect that closes it leave
\* no handshake timer live for that transport, and a handshake-timer callback
\* runs only for a transport that is still connecting, never for one whose
\* open callback has fired.
C17_HandshakeTimerDisarmedByOpen ==
  [][\A w \in Ids :
       /\ OpenedNow(w) => w \notin hsLive'
       /\ (trans[w].rs # CLOSING /\ trans'[w].rs = CLOSING /\ trans'[w].closedBy = "disconnect")
          => w \notin hsLive'
       /\ HandshakeTimerFired(w) => (trans[w].rs = CONNECTING /\ ~trans[w].opened)]_vars

\* the manager is Connecting or Open and its current transport is live and
\* targets the url of the last render
AlreadyConnected ==
  /\ currentReadyState \in {CONNECTING, OPEN}
  /\ wsRef # NoWs
  /\ trans[wsRef].rs \in {CONNECTING, OPEN}
  /\ trans[wsRef].url = url

\* the step is the callback of the 50ms initTimeout
InitTimeoutFired == initTimer /\ ~initTimer' /\ renders' = renders /\ phase' = phase

\* C18: the initTimeout callback and sendMessage, when they run while the
\* manager is already Connecting or Open for the same url, create no
\* transport, report no event and leave attemptCount, the flags, the state and
\* both timers unchanged.
C18_OpenWhileConnectedIsNoOp ==
  [][(AlreadyConnected /\ (InitTimeoutFired \/ sendPending))
       => /\ Len(trans') = Len(trans)
          /\ emitted' = <<>>
          /\ UNCHANGED <<reconnectAttempts, forcedClose, isReconnectAttempt, timedOut,
                         everConnected, currentReadyState, wsRef, hsLive, rcLive,
                         connectionTimeoutRef, reconnectTimeoutRef>>]_vars

\* the step reported an error event
ErrorReported == \E i \in 1..Len(emitted') : emitted'[i].type = "error"

\* C19: a transport error callback reports exactly one error event, which
\* carries no state field, and leaves the state, the state last reported, the
\* current transport, every transport, attemptCount, everConnected,
\* forcedClose, isReconnectAttempt, timedOut and all timers unchanged.
C19_ErrorIsInformational ==
  [][ErrorReported
       => /\ emitted' = <<Ev("error", "none", FALSE, FALSE, 0)>>
          /\ UNCHANGED <<currentReadyState, obsState, wsRef, trans, reconnectAttempts,
                         everConnected, forcedClose, isReconnectAttempt, timedOut,
                         hsLive, rcLive, connectionTimeoutRef, reconnectTimeoutRef,
                         initTimer>>]_vars

\* an error was just reported for the open current transport
C19_Witness ==
  /\ emitted = <<Ev("error", "none", FALSE, FALSE, 0)>>
  /\ currentReadyState = OPEN
  /\ obsState = OPEN
  /\ wsRef # NoWs
  /\ trans[wsRef].rs = OPEN
  /\ hsLive = {}

\* close events that report an interim loss (the state stays Connecting)
InterimCloses(es) ==
  {i \in 1..Len(es) : es[i].type = "close" /\ es[i].readyState = CONNECTING}

\* C20: when the close callback of a transport that the handshake timer closed
\* runs, timedOut is TRUE, and the callback reports no interim close event.
C20_TimedOutCloseReportsNoLoss ==
  [][\A w \in Ids :
       (ClosedNow(w) /\ trans[w].closedBy = "timeout")
       => (timedOut /\ InterimCloses(emitted') = {})]_vars

\* C21: the close callback of a transport that the reconnect timer created and
\* that never opened reports no interim close event, and when it schedules a
\* further retry it reports exactly one connecting event; so a retry episode
\* reports at most one interim close.
C21_RetryTerminationReportsNoLoss ==
  [][\A w \in Ids :
       (ClosedNow(w) /\ trans[w].byRetry /\ ~trans[w].opened)
       => /\ InterimCloses(emitted') = {}
          /\ w \in rcLive' => Cardinality(Connectings(emitted')) = 1]_vars

\* C22: the open callback of a transport reports one open event whose
\* isReconnect field is TRUE exactly when the reconnect timer created that
\* transport.
C22_IsReconnectTellsRetry ==
  [][\A w \in Ids :
       OpenedNow(w)
       => emitted' = <<Ev("open", OPEN, trans[w].byRetry, FALSE, 0)>>]_vars

\* the setting of C23: a manager mounted with automatic open and
\* maxReconnectAttempts unset, never re-rendered, none of whose transports has
\* completed a handshake (each of them fails with code 1006)
ScenarioUnreachable ==
  /\ maxReconnectAttempts = Null
  /\ automaticOpen
  /\ phase = "mounted"
  /\ renders = 0
  /\ ~everConnected

\* C23: in that setting at most 4 transports are created (the initial attempt
\* and 3 reconnection attempts); the state becomes Closed and a close event
\* marked reconnectionStopped is reported only when the 4th has failed, and
\* then no timer is armed.
C23_UnreachableStopsAfterThreeRetries ==
  ScenarioUnreachable =>
    /\ Len(trans) <= UnavailableLimit + 1
    /\ reconnectAttempts <= UnavailableLimit
    /\ (StoppedCloses(emitted) # {} \/ (currentReadyState = CLOSED /\ Len(trans) > 0))
       => /\ Len(trans) = UnavailableLimit + 1
          /\ currentReadyState = CLOSED
          /\ hsLive = {} /\ rcLive = {} /\ ~initTimer
    /\ (Len(trans) = UnavailableLimit + 1 /\ trans[Len(trans)].rs = CLOSED)
       => /\ currentReadyState = CLOSED
          /\ obsState = CLOSED
          /\ hsLive = {} /\ rcLive = {} /\ ~initTimer

\* the 4th transport has just failed and the manager gave up
C23_Witness ==
  /\ ScenarioUnreachable
  /\ StoppedCloses(emitted) # {}
  /\ Len(trans) = 4
  /\ reconnectAttempts = 3
  /\ currentReadyState = CLOSED

\* C24: in the first component, a mounted manager that has no transport left,
\* no handshake timer, no reconnect timer and no initTimeout pending (so that
\* nothing will happen any more) is in state Closed and has reported Closed;
\* in particular, after the retry budget is exhausted it is not left in
\* Connecting.
C24_FirstExhaustionEndsClosed ==
  (/\ phase = "mounted"
   /\ Len(trans) > 0
   /\ \A w \in 1..Len(trans) : trans[w].rs = CLOSED
   /\ hsLive = {} /\ rcLive = {} /\ ~initTimer)
  => (currentReadyState = CLOSED /\ obsState = CLOSED)

\* equality of rationals <<num, den>>
REq(a, b) == a[1] * b[2] = b[1] * a[2]

\* min(base * 1.5^k, 30000) in ms for k = 0..7, worked out by hand for the
\* default settings: base 1000 when everConnected, 3000 otherwise
ExpectedDelay(k, ever) ==
  IF ever
  THEN <<<<1000, 1>>, <<1500, 1>>, <<2250, 1>>, <<3375, 1>>, <<10125, 2>>, <<30375, 4>>,
         <<91125, 8>>, <<273375, 16>>>>[k + 1]
  ELSE <<<<3000, 1>>, <<4500, 1>>, <<6750, 1>>, <<10125, 1>>, <<30375, 2>>, <<91125, 4>>,
         <<30000, 1>>, <<30000, 1>>>>[k + 1]

\* C25: a close callback that arms a reconnect timer arms it with
\* min(base * reconnectDecay^attemptCount, maxReconnectInterval), base being
\* reconnectInterval when everConnected and 3 * reconnectInterval otherwise,
\* and leaves attemptCount unchanged; each reconnect-timer callback increases
\* attemptCount by exactly 1.
C25_ArmedDelayFollowsFormula ==
  [][\A w \in Ids :
       /\ (ClosedNow(w) /\ w \in rcLive')
          => /\ REq(armedDelay', ExpectedDelay(reconnectAttempts, everConnected))
             /\ reconnectAttempts' = reconnectAttempts
       /\ ReconnectTimerFired(w) => reconnectAttempts' = reconnectAttempts + 1]_vars

\* a retry was just armed with 2250 ms: the second retry after a connection
\* that had been open failed
C25_Witness ==
  /\ everConnected
  /\ reconnectAttempts = 2
  /\ rcLive # {}
  /\ REq(armedDelay, <<2250, 1>>)

\* nothing is pending: every transport has had its close event and no timer is armed
Quiescent ==
  /\ \A w \in 1..Len(trans) : trans[w].rs = CLOSED
  /\ hsLive = {} /\ rcLive = {} /\ ~initTimer

\* C26: once disconnect has run at teardown and nothing is pending any more,
\* the manager state is Closed and Closed is what the Observer was told; and
\* a torn-down manager that is Closed stays Closed.
C26_DisconnectEndsClosed ==
  [][/\ (phase' = "unmounted" /\ Quiescent')
        => (currentReadyState' = CLOSED /\ obsState' = CLOSED)
     /\ (phase = "unmounted" /\ currentReadyState = CLOSED)
        => currentReadyState' = CLOSED]_vars

\* C27: a commit that leaves the url unchanged does not close or replace the
\* current transport, cancels none of its timers, schedules no new open and
\* leaves forcedClose as it was.
C27_RerenderKeepsConnection ==
  [][(Committed /\ url' = url)
       => /\ trans' = trans
          /\ wsRef' = wsRef
          /\ hsLive' = hsLive
          /\ rcLive' = rcLive
          /\ initTimer' = initTimer
          /\ forcedClose' = forcedClose]_vars

NotClosed == {w \in Ids : trans[w].rs # CLOSED}

\* C28: in every reachable state at most one transport created by the manager
\* is live (created and not yet closed), so a new transport is created only
\* after the previous one has terminated.
C28_AtMostOneLiveTransport ==
  Cardinality(NotClosed) <= 1


\* C29: after every callback, the readyState last reported to the Observer in
\* the state field equals the manager's internal state (currentReadyStateRef).
C29_ObserverStateMatchesManager ==
  obsState = currentReadyState

\* C30: whenever the manager state is Open, wsRef refers to a live (not yet
\* closed) transport that has opened, attemptCount is 0, everConnected is true,
\* and neither a reconnect timer nor a handshake timer is armed.
C30_OpenStateIsConsistent ==
  currentReadyState = OPEN
    => /\ wsRef # NoWs
       /\ wsRef \in NotClosed
       /\ trans[wsRef].opened
       /\ reconnectAttempts = 0
       /\ everConnected
       /\ hsLive = {}
       /\ rcLive = {}

(* ---- a host that drives the component by hand, one reachable endpoint ---- *)
\* The url prop keeps its value; every later commit of the host changes the
\* send prop, as often as the bound allows; the endpoint accepts every handshake and never drops a
\* connection, so a transport closes only after the manager's ws.close().
InitManual ==
  /\ InitMgr
  /\ budget = Budget
  /\ phase = "new"
  /\ url = "A"
  /\ automaticOpen \in BOOLEAN
  /\ maxReconnectAttempts \in {Null, 3}
  /\ dIn = NoInput
  /\ dOut = NoOutput

NextManual ==
  \/ \E b \in BOOLEAN : Mount(b)
  \/ Rerender(url, TRUE)
  \/ SendEffect
  \/ InitTimeout
  \/ \E w \in 1..(Budget + 1) : ReconnectTimeout(w)
  \/ \E w \in 1..(Budget + 1) : WsOpen(w)
  \/ \E w \in 1..(Budget + 1) : ClosingEnds(w)

\* the host mounts the component and keeps sending (a commit whose send prop
\* changed, then its send effect); timers fire, the endpoint completes every
\* handshake and every ws.close() ends in its close event
FairManual ==
  /\ WF_vars(\E b \in BOOLEAN : Mount(b))
  /\ WF_vars(Rerender(url, TRUE))
  /\ WF_vars(SendEffect)
  /\ WF_vars(InitTimeout)
  /\ \A w \in 1..(Budget + 1) :
       /\ WF_vars(ReconnectTimeout(w))
       /\ WF_vars(WsOpen(w))
       /\ WF_vars(ClosingEnds(w))

SpecManual == InitManual /\ [][NextManual]_vars /\ FairManual

\* C31: with automaticOpen = false and a reachable endpoint, mounting or
\* setting the endpoint creates no transport, and the manager is not stuck in
\* Closed: a host that keeps operating the mounted component on the same
\* endpoint (re-rendering, sending) gets it to Open.
C31_ManualOpenReachesOpen ==
  /\ [][(~automaticOpen /\ (phase = "new" \/ Committed) /\ phase' = "mounted")
          => trans' = trans]_vars
  /\ (~automaticOpen /\ phase = "mounted") ~> (currentReadyState = OPEN)

\* What the code does instead: with automaticOpen = false the url effect arms
\* no initial open (line 887) and sendMessage re-opens only after an earlier
\* successful open (line 874), so under every host operation the manager
\* stays Closed, with no transport and no timer.
ManualStaysClosed ==
  ~automaticOpen
    => /\ currentReadyState = CLOSED
       /\ trans = <<>>
       /\ ~initTimer
       /\ ~everConnected
====
